---- MODULE Spec2Model ----
(***************************************************************************)
(* Model of src/util/frame/audio.rs: the Audio wrapper over a native       *)
(* AVFrame.  A frame is the record of the native fields the wrapper reads  *)
(* and writes; plane buffers live in a heap of byte sequences so that      *)
(* storage identity (sharing or not) is part of the state.                 *)
(*                                                                         *)
(* TLC integers are 32 bits wide, so the two machine widths that matter    *)
(* (c_int and usize) are scaled down to CIntBits and USizeBits; the        *)
(* conversions between them are modelled as truncation and sign extension  *)
(* at those widths.                                                        *)
(***************************************************************************)
EXTENDS Integers, Sequences, FiniteSets, TLC

\* ------------------------------------------------------------------ bounds
CIntBits == 8
USizeBits == 10
MaxSamples == 2
MaxBufs == 4
MaxSets == 2
MaxWrites == 1

\* --------------------------------------------------------- program constants
U16Bits == 16
Align == 1
AV_NUM_DATA_POINTERS == 8
AV_SAMPLE_FMT_NONE == -1

Pow2(n) == 2 ^ n
INT_MAX == Pow2(CIntBits - 1) - 1
USIZE_MOD == Pow2(USizeBits)

OK == "0"
EINVAL == "AVERROR(EINVAL)"
ENOMEM == "AVERROR(ENOMEM)"
NULL == 0

Min(x, y) == IF x < y THEN x ELSE y

\* ------------------------------------------------------- integer conversions
\* `value as c_int` of an unsigned value: keep the low CIntBits bits, read as
\* two's complement.
AsCInt(v) ==
    LET m == v % Pow2(CIntBits)
    IN  IF m > INT_MAX THEN m - Pow2(CIntBits) ELSE m

\* `value as usize` of a c_int: sign extension to the width of usize.
AsUSize(v) == v % USIZE_MOD

\* `value as u16` of a c_int.
AsU16(v) == v % Pow2(U16Bits)

\* ------------------------------------------------------------ sample formats
Families == {"U8", "I16", "I32", "F32", "F64"}
Packings == {"Packed", "Planar"}
SampleNone == [family |-> "None", packing |-> "Packed"]
SampleFormats == [family : Families, packing : Packings]
Samples == SampleFormats \cup {SampleNone}

FamilyIndex(fam) ==
    CASE fam = "U8" -> 0 [] fam = "I16" -> 1 [] fam = "I32" -> 2
      [] fam = "F32" -> 3 [] fam = "F64" -> 4

\* Sample -> AVSampleFormat -> c_int (set_format's conversion).
SampleInto(s) ==
    IF s = SampleNone THEN AV_SAMPLE_FMT_NONE
    ELSE FamilyIndex(s.family) + (IF s.packing = "Planar" THEN 5 ELSE 0)

\* c_int -> AVSampleFormat -> Sample (format()'s conversion).
SampleFrom(n) ==
    IF n < 0 \/ n > 9 THEN SampleNone
    ELSE LET fam == CHOOSE f \in Families : FamilyIndex(f) = n % 5
         IN  [family |-> fam, packing |-> IF n >= 5 THEN "Planar" ELSE "Packed"]

\* av_get_bytes_per_sample
BytesPerSample(n) ==
    IF n < 0 \/ n > 9 THEN 0
    ELSE CASE n % 5 = 0 -> 1 [] n % 5 = 1 -> 2 [] n % 5 = 2 -> 4
           [] n % 5 = 3 -> 4 [] n % 5 = 4 -> 8

SampleIsPlanar(s) == s # SampleNone /\ s.packing = "Planar"
SampleIsPacked(s) == ~SampleIsPlanar(s)

\* ------------------------------------------------------------ channel layouts
\* A layout is the set of its channel bits: 0 FRONT_LEFT, 1 FRONT_RIGHT,
\* 2 FRONT_CENTER.
ChannelBits == {0, 1, 2}
LayoutNone == {}
MONO == {2}
STEREO == {0, 1}
Layouts == {LayoutNone, MONO, STEREO}
FromBitsTruncate(bits) == bits \cap ChannelBits
NbChannels(bits) == Cardinality(bits)

\* -------------------------------------------------------------------- inputs
Bytes == {0, 1}
BufIds == 1 .. MaxBufs
FrameIds == {"a", "b"}
SmallCounts == 0 .. MaxSamples
WideCounts == {Pow2(CIntBits - 1), Pow2(CIntBits), Pow2(CIntBits) + 1}
ChannelCounts == {0, 1, 2, 9}
Rates == {0, 100}
Indices == {0, 1, 8}
ElementTypes == Families

\* mem::size_of::<T>()
SizeOf(T) ==
    CASE T = "U8" -> 1 [] T = "I16" -> 2 [] T = "I32" -> 4
      [] T = "F32" -> 4 [] T = "F64" -> 8

VARIABLES frames, heap, ret, nsets, nwrites
vars == <<frames, heap, ret, nsets, nwrites>>

\* --------------------------------------------------------------------- frame
Slots == 0 .. (AV_NUM_DATA_POINTERS - 1)

\* Frame::empty(): av_frame_alloc's defaults.
EmptyFrame ==
    [format |-> AV_SAMPLE_FMT_NONE, nb_samples |-> 0, channel_layout |-> {},
     channels |-> 0, sample_rate |-> 0, linesize0 |-> 0,
     data |-> [i \in Slots |-> NULL]]

FreeIds(h) == {id \in BufIds : h[id] = <<>>}

FrameBufs(fr) == {fr.data[i] : i \in Slots} \ {NULL}

\* Drop of a Frame: its buffers lose their only holder.
Release(fr, h) == [id \in BufIds |-> IF id \in FrameBufs(fr) THEN <<>> ELSE h[id]]

\* ------------------------------------------------------------- libavutil FFI
\* av_samples_get_buffer_size(&linesize, channels, nb_samples, format, align):
\* the line size, or 0 when the arguments are rejected.  The overflow test
\* channels * nb_samples > (INT_MAX - align * channels) / sample_size is the
\* library's.
SamplesLineSize(channels, nb_samples, fmt, align) ==
    LET ss == BytesPerSample(fmt)
    IN  IF ss = 0 \/ nb_samples <= 0 \/ channels <= 0 THEN 0
        ELSE IF channels > INT_MAX \div align
                \/ channels * nb_samples > (INT_MAX - align * channels) \div ss
             THEN 0
        ELSE IF fmt >= 5 THEN nb_samples * ss
        ELSE nb_samples * ss * channels

\* The first n free buffer ids, in order.
RECURSIVE TakeIds(_, _)
TakeIds(free, n) ==
    IF n = 0 THEN <<>>
    ELSE LET id == CHOOSE x \in free : \A y \in free : x <= y
         IN  <<id>> \o TakeIds(free \ {id}, n - 1)

\* av_frame_get_buffer(frame, align) on an audio frame (width = height = 0).
\* junk is what the fresh, uninitialised buffers hold; oom says whether
\* av_buffer_alloc fails.  The result is the frame, the heap and the return
\* code.  On an allocation failure the library unrefs the frame, which puts
\* every field back to its default.
av_frame_get_buffer(fr, h, align, junk, oom) ==
    LET channels == IF fr.channels = 0 THEN NbChannels(fr.channel_layout)
                    ELSE fr.channels
        planes == IF fr.format >= 5 THEN channels ELSE 1
        ls == IF fr.linesize0 = 0
              THEN SamplesLineSize(channels, fr.nb_samples, fr.format, align)
              ELSE fr.linesize0
        n == Min(planes, AV_NUM_DATA_POINTERS)
        failed(rc) == [frame |-> fr, heap |-> h, rc |-> rc]
    IN  IF fr.format < 0 THEN failed(EINVAL)
        ELSE IF ~(fr.nb_samples > 0 /\ fr.channel_layout # {}) THEN failed(EINVAL)
        ELSE IF ls = 0 THEN [frame |-> [fr EXCEPT !.channels = channels],
                             heap |-> h, rc |-> EINVAL]
        ELSE IF oom \/ Cardinality(FreeIds(h)) < n
             THEN [frame |-> EmptyFrame, heap |-> h, rc |-> ENOMEM]
        ELSE LET ids == TakeIds(FreeIds(h), n)
                 got == {ids[k] : k \in 1 .. n}
             IN  [frame |-> [fr EXCEPT !.channels = channels,
                                       !.linesize0 = ls,
                                       !.data = [i \in Slots |->
                                                   IF i < n THEN ids[i + 1] ELSE NULL]],
                  heap |-> [id \in BufIds |->
                              IF id \in got THEN [k \in 1 .. ls |-> junk] ELSE h[id]],
                  rc |-> OK]

\* --------------------------------------------------------------------- Audio
\* fn format(&self)
format(fr) ==
    IF fr.format = AV_SAMPLE_FMT_NONE THEN SampleNone ELSE SampleFrom(fr.format)

\* fn set_format(&mut self, value)
set_format(fr, value) == [fr EXCEPT !.format = SampleInto(value)]

\* fn channel_layout(&self)
channel_layout(fr) == FromBitsTruncate(fr.channel_layout)

\* fn set_channel_layout(&mut self, value)
set_channel_layout(fr, value) == [fr EXCEPT !.channel_layout = value]

\* fn channels(&self)
channels(fr) == AsU16(fr.channels)

\* fn set_channels(&mut self, value)
set_channels(fr, value) == [fr EXCEPT !.channels = AsCInt(value)]

\* `value as u32` of a c_int: u32 has the width of c_int.
AsU32(v) == v % Pow2(CIntBits)

\* fn rate(&self)
rate(fr) == AsU32(fr.sample_rate)

\* fn set_rate(&mut self, value)
set_rate(fr, value) == [fr EXCEPT !.sample_rate = AsCInt(value)]

\* fn samples(&self)
samples(fr) == AsUSize(fr.nb_samples)

\* fn set_samples(&mut self, value)
set_samples(fr, value) == [fr EXCEPT !.nb_samples = AsCInt(value)]

\* fn is_planar(&self) / fn is_packed(&self)
is_planar(fr) == SampleIsPlanar(format(fr))
is_packed(fr) == SampleIsPacked(format(fr))

\* planes() without the test of the first line size.
planes_unchecked(fr) ==
    IF is_packed(fr) THEN 1 ELSE channels(fr)

\* fn planes(&self)
planes(fr) ==
    IF fr.linesize0 = 0 THEN 0
    ELSE IF is_packed(fr) THEN 1
    ELSE channels(fr)

\* is_valid that goes by the size of an element instead of its family.
is_valid_by_size(T, fmt) ==
    fmt # SampleNone /\ SizeOf(T) = BytesPerSample(SampleInto(fmt))

\* <T as Sample>::is_valid(format)
is_valid(T, fmt) == fmt.family = T

\* unsafe fn alloc(&mut self, format, samples, layout): the three setters,
\* then the buffer allocation, whose return code the code drops.
alloc(fr, h, fmt, n, layout, junk, oom) ==
    av_frame_get_buffer(
        set_channel_layout(set_samples(set_format(fr, fmt), n), layout),
        h, Align, junk, oom)

\* fn new(format, samples, layout): Audio::empty() then alloc; the frame is
\* returned whatever the allocation answered.  av_rc keeps the discarded
\* return code for the properties to read.
new(h, fmt, n, layout, junk, oom) ==
    LET r == alloc(EmptyFrame, h, fmt, n, layout, junk, oom)
    IN  [frame |-> r.frame, heap |-> r.heap, av_rc |-> r.rc, outcome |-> "frame"]

\* What a call hands back: a panic, or a slice over raw memory (pointer,
\* length in elements, size of one element).
Panic(msg) == [kind |-> "panic", msg |-> msg]
View(ptr, len, size) == [kind |-> "view", ptr |-> ptr, len |-> len, size |-> size]

\* plane with the bounds test off by one.
plane_off_by_one(fr, T, index, wrap) ==
    IF index > planes(fr) THEN Panic("out of bounds")
    ELSE IF ~is_valid(T, format(fr)) THEN Panic("unsupported type")
    ELSE IF index \notin Slots THEN Panic("index out of bounds of data")
    ELSE IF SizeOf(T) * samples(fr) >= USIZE_MOD /\ ~wrap
         THEN Panic("arithmetic overflow")
    ELSE View(fr.data[index], (SizeOf(T) * samples(fr)) % USIZE_MOD, SizeOf(T))

\* fn plane<T: Sample>(&self, index).  The product size_of::<T>() * samples()
\* is computed in usize: when it overflows, a build with overflow checks
\* panics and one without wraps (wrap picks the build).
plane(fr, T, index, wrap) ==
    IF index >= planes(fr) THEN Panic("out of bounds")
    ELSE IF ~is_valid(T, format(fr)) THEN Panic("unsupported type")
    ELSE IF index \notin Slots THEN Panic("index out of bounds of data")
    ELSE IF SizeOf(T) * samples(fr) >= USIZE_MOD /\ ~wrap
         THEN Panic("arithmetic overflow")
    ELSE View(fr.data[index], (SizeOf(T) * samples(fr)) % USIZE_MOD, SizeOf(T))

\* fn plane_mut<T: Sample>(&mut self, index)
plane_mut(fr, T, index, wrap) ==
    IF index >= planes(fr) THEN Panic("out of bounds")
    ELSE IF ~is_valid(T, format(fr)) THEN Panic("unsupported type")
    ELSE IF index \notin Slots THEN Panic("index out of bounds of data")
    ELSE IF SizeOf(T) * samples(fr) >= USIZE_MOD /\ ~wrap
         THEN Panic("arithmetic overflow")
    ELSE View(fr.data[index], (SizeOf(T) * samples(fr)) % USIZE_MOD, SizeOf(T))

\* fn data(&self): one byte view per plane, each of linesize[0] bytes.
data(fr) ==
    IF planes(fr) > AV_NUM_DATA_POINTERS THEN Panic("index out of bounds of data")
    ELSE [kind |-> "views",
          views |-> [i \in 1 .. planes(fr) |->
                       View(fr.data[i - 1], AsUSize(fr.linesize0), 1)]]

\* fn data_mut(&mut self)
data_mut(fr) ==
    IF planes(fr) > AV_NUM_DATA_POINTERS THEN Panic("index out of bounds of data")
    ELSE [kind |-> "views",
          views |-> [i \in 1 .. planes(fr) |->
                       View(fr.data[i - 1], AsUSize(fr.linesize0), 1)]]

\* ------------------------------------------------------------------- cloning
\* Bytes av_samples_copy moves per plane, and the planes it walks.
CopySize(fr) ==
    IF fr.format >= 5 THEN fr.nb_samples * BytesPerSample(fr.format)
    ELSE fr.nb_samples * BytesPerSample(fr.format) * fr.channels
CopyPlanes(fr) == IF fr.format >= 5 THEN fr.channels ELSE 1

\* av_frame_copy(dst, src) on audio frames: the heap after the copy and the
\* return code.  A byte read past the end of a source buffer is whatever
\* lies there (oob).
av_frame_copy(dst, h, src, oob) ==
    IF dst.format # src.format \/ dst.format < 0 THEN [heap |-> h, rc |-> EINVAL]
    ELSE IF ~(dst.nb_samples > 0 /\ dst.channel_layout # {})
         THEN [heap |-> h, rc |-> EINVAL]
    ELSE IF dst.nb_samples # src.nb_samples \/ dst.channels # src.channels
            \/ dst.channel_layout # src.channel_layout
         THEN [heap |-> h, rc |-> EINVAL]
    ELSE IF \E i \in 0 .. (CopyPlanes(dst) - 1) :
                dst.data[i] = NULL \/ src.data[i] = NULL
         THEN [heap |-> h, rc |-> EINVAL]
    ELSE LET to == {dst.data[i] : i \in 0 .. (CopyPlanes(dst) - 1)}
             from(id) == src.data[CHOOSE i \in 0 .. (CopyPlanes(dst) - 1) :
                                    dst.data[i] = id]
         IN  [heap |-> [id \in BufIds |->
                          IF id \notin to THEN h[id]
                          ELSE [k \in 1 .. Len(h[id]) |->
                                  IF k > CopySize(dst) THEN h[id][k]
                                  ELSE IF k <= Len(h[from(id)]) THEN h[from(id)][k]
                                  ELSE oob]],
              rc |-> OK]

\* av_frame_copy_props(dst, src): of the fields modelled here the library
\* copies the sample rate; format, sample count, channels and layout are
\* left as they are.
av_frame_copy_props(dst, src) == [dst EXCEPT !.sample_rate = src.sample_rate]

\* fn clone_from(&mut self, source): both calls are made unconditionally and
\* both return codes are dropped.
clone_from(self, h, source, oob) ==
    LET c == av_frame_copy(self, h, source, oob)
    IN  [frame |-> av_frame_copy_props(self, source), heap |-> c.heap,
         copy_rc |-> c.rc, outcome |-> "unit"]

\* fn clone(&self)
clone(self, h, junk, oom, oob) ==
    LET cloned == new(h, format(self), samples(self), channel_layout(self), junk, oom)
        r == clone_from(cloned.frame, cloned.heap, self, oob)
    IN  [frame |-> r.frame, heap |-> r.heap, av_rc |-> cloned.av_rc,
         copy_rc |-> r.copy_rc, outcome |-> "frame"]

\* -------------------------------------------------------------------- actions
NoCall == [op |-> "none"]

\* The bytes of a frame's plane buffers, slot by slot.
PlaneBytes(fr, h) == [i \in Slots |-> IF fr.data[i] = NULL THEN <<>> ELSE h[fr.data[i]]]

Init ==
    /\ frames = [f \in FrameIds |-> EmptyFrame]
    /\ heap = [id \in BufIds |-> <<>>]
    /\ ret = NoCall
    /\ nsets = 0
    /\ nwrites = 0

\* f = Audio::empty(); the frame f held before is dropped.
Empty(f) ==
    /\ frames[f] # EmptyFrame
    /\ frames' = [frames EXCEPT ![f] = EmptyFrame]
    /\ heap' = Release(frames[f], heap)
    /\ ret' = [op |-> "empty", frame |-> f]
    /\ nsets' = 0
    /\ UNCHANGED nwrites

\* f = Audio::new(fmt, n, layout), with fmt among Fs, n among Ns and layout
\* among Ls, into a variable f that holds no buffer.
New(f, Fs, Ns, Ls) ==
    /\ frames[f] = EmptyFrame
    /\ \E fmt \in Fs, n \in Ns, layout \in Ls, junk \in Bytes, oom \in BOOLEAN :
        LET r == new(heap, fmt, n, layout, junk, oom)
        IN  /\ frames' = [frames EXCEPT ![f] = r.frame]
            /\ heap' = r.heap
            /\ ret' = [op |-> "new", frame |-> f, format |-> fmt, samples |-> n,
                       layout |-> layout, av_rc |-> r.av_rc, outcome |-> r.outcome]
            /\ UNCHANGED <<nsets, nwrites>>

Setter(f, fr) ==
    /\ nsets < MaxSets
    /\ frames' = [frames EXCEPT ![f] = fr]
    /\ ret' = NoCall
    /\ nsets' = nsets + 1
    /\ UNCHANGED <<heap, nwrites>>

SetFormat(f) == \E v \in Samples : Setter(f, set_format(frames[f], v))
SetChannelLayout(f) == \E v \in Layouts : Setter(f, set_channel_layout(frames[f], v))
SetChannels(f, Cs) == \E v \in Cs : Setter(f, set_channels(frames[f], v))
SetRate(f) == \E v \in Rates : Setter(f, set_rate(frames[f], v))
SetSamples(f, Ns) == \E v \in Ns : Setter(f, set_samples(frames[f], v))

\* The accessors only read, so the state an accessor call leads to does not
\* depend on the accessor calls before it: they are taken from the states a
\* construction or a setter leaves, which loses no state.
AccessOps == {"plane", "plane_mut", "data", "data_mut"}
Settled == ret.op \notin AccessOps

\* The builds to tell apart: both when the length overflows usize, one
\* otherwise.
Builds(fr, T) == IF SizeOf(T) * samples(fr) >= USIZE_MOD THEN BOOLEAN ELSE {TRUE}

Plane(f) ==
    /\ Settled
    /\ \E T \in ElementTypes, index \in Indices :
        \E wrap \in Builds(frames[f], T) :
            /\ ret' = [op |-> "plane", frame |-> f, T |-> T, index |-> index,
                       result |-> plane(frames[f], T, index, wrap)]
            /\ UNCHANGED <<frames, heap, nsets, nwrites>>

PlaneMut(f) ==
    /\ Settled
    /\ \E T \in ElementTypes, index \in Indices :
        \E wrap \in Builds(frames[f], T) :
            /\ ret' = [op |-> "plane_mut", frame |-> f, T |-> T, index |-> index,
                       result |-> plane_mut(frames[f], T, index, wrap)]
            /\ UNCHANGED <<frames, heap, nsets, nwrites>>

Data(f) ==
    /\ Settled
    /\ ret' = [op |-> "data", frame |-> f, result |-> data(frames[f])]
    /\ UNCHANGED <<frames, heap, nsets, nwrites>>

DataMut(f) ==
    /\ Settled
    /\ ret' = [op |-> "data_mut", frame |-> f, result |-> data_mut(frames[f])]
    /\ UNCHANGED <<frames, heap, nsets, nwrites>>

\* One byte stored through a view data_mut() returned, inside the buffer the
\* view points to.
Write(f) ==
    /\ nwrites < MaxWrites
    /\ data_mut(frames[f]).kind = "views"
    /\ \E i \in DOMAIN data_mut(frames[f]).views, v \in Bytes :
           LET view == data_mut(frames[f]).views[i]
           IN  /\ view.ptr # NULL
               /\ \E k \in 1 .. Min(view.len, Len(heap[view.ptr])) :
                      heap' = [heap EXCEPT ![view.ptr][k] = v]
    /\ ret' = [op |-> "write", frame |-> f]
    /\ nwrites' = nwrites + 1
    /\ UNCHANGED <<frames, nsets>>

\* The copy stays inside the destination's buffers.
CopyFits(dst, src, h) ==
    IF av_frame_copy(dst, h, src, 0).rc # OK THEN TRUE
    ELSE \A i \in 0 .. (CopyPlanes(dst) - 1) : CopySize(dst) <= Len(h[dst.data[i]])

\* dst = src.clone(); the frame dst held before is dropped.
Clone(src, dst) ==
    /\ src # dst
    /\ CopyPlanes(frames[src]) <= AV_NUM_DATA_POINTERS
    /\ \E junk \in Bytes, oom \in BOOLEAN, oob \in Bytes :
           LET r == clone(frames[src], heap, junk, oom, oob)
           IN  /\ frames' = [frames EXCEPT ![dst] = r.frame]
               /\ heap' = Release(frames[dst], r.heap)
               /\ ret' = [op |-> "clone", frame |-> dst, source |-> src,
                          av_rc |-> r.av_rc, copy_rc |-> r.copy_rc,
                          outcome |-> r.outcome]
    /\ UNCHANGED <<nsets, nwrites>>

\* dst.clone_from(&src)
CloneFrom(dst, src) ==
    /\ src # dst
    /\ CopyPlanes(frames[dst]) <= AV_NUM_DATA_POINTERS
    /\ CopyFits(frames[dst], frames[src], heap)
    /\ \E oob \in Bytes :
           LET r == clone_from(frames[dst], heap, frames[src], oob)
           IN  /\ frames' = [frames EXCEPT ![dst] = r.frame]
               /\ heap' = r.heap
               /\ ret' = [op |-> "clone_from", frame |-> dst, source |-> src,
                          copy_rc |-> r.copy_rc, outcome |-> r.outcome,
                          pre |-> [frame |-> frames[dst],
                                   bytes |-> PlaneBytes(frames[dst], heap)]]
    /\ UNCHANGED <<nsets, nwrites>>

\* ------------------------------------------------------------ specifications
AllCounts == SmallCounts \cup WideCounts

\* One frame: construction, the setters and the accessors.
Next ==
    \/ Empty("a")
    \/ New("a", Samples, SmallCounts, Layouts)
    \/ SetFormat("a")
    \/ SetChannelLayout("a")
    \/ SetChannels("a", ChannelCounts)
    \/ SetSamples("a", SmallCounts)
    \/ Plane("a")
    \/ PlaneMut("a")
    \/ Data("a")
    \/ DataMut("a")

Spec == Init /\ [][Next]_vars

\* Two frames: a is built, modified and written to; b is built, or cloned
\* from a.
CloneFormats == {[family |-> "U8", packing |-> "Packed"],
                 [family |-> "U8", packing |-> "Planar"]}
CloneCounts == {1}
CloneLayouts == {MONO, STEREO}
CloneChannels == {1, 2}

NextClone ==
    \/ \E f \in FrameIds : New(f, CloneFormats, CloneCounts, CloneLayouts)
    \/ SetChannels("a", CloneChannels)
    \/ SetRate("a")
    \/ Write("a")
    \/ Clone("a", "b")
    \/ CloneFrom("b", "a")

SpecClone == Init /\ [][NextClone]_vars

\* One frame and the sample counts that do not fit c_int.
NextNum ==
    \/ Empty("a")
    \/ New("a", Samples, AllCounts, Layouts)
    \/ SetSamples("a", AllCounts)
    \/ Plane("a")
    \/ PlaneMut("a")

SpecNum == Init /\ [][NextNum]_vars

\* ---------------------------------------------------------------- properties
\* The frame the last call was made on, and whether that call was a typed
\* plane access.
Subject == frames[ret.frame]
TypedAccess == ret.op \in {"plane", "plane_mut"}
Mismatched == ~(\E p \in Packings : format(Subject) = [family |-> ret.T, packing |-> p])
Allocated(fr) == fr.linesize0 # 0

\* C1: a typed plane view, of plane or plane_mut, has exactly samples()
\* elements, whatever the element type.
C1_PlaneLenIsSamples ==
    (TypedAccess /\ ret.result.kind = "view") => ret.result.len = samples(Subject)

\* C2: when the buffer allocation inside new fails, new reports an allocation
\* error instead of handing back a frame.
C2_NewReportsAllocationFailure ==
    (ret.op = "new" /\ ret.av_rc # OK) => ret.outcome = "allocation error"

\* C3: b = a.clone() of an allocated frame a (its channel count possibly set
\* apart from its layout) has a's format, sample count and layout, holds a's
\* bytes plane by plane, and shares no buffer with a.
C3_CloneRoundTrip ==
    (ret.op = "clone" /\ ret.av_rc = OK /\ Allocated(frames[ret.source])) =>
        LET a == frames[ret.source]
            b == frames[ret.frame]
        IN  /\ format(b) = format(a)
            /\ samples(b) = samples(a)
            /\ channel_layout(b) = channel_layout(a)
            /\ PlaneBytes(b, heap) = PlaneBytes(a, heap)
            /\ FrameBufs(a) \cap FrameBufs(b) = {}

\* Buffer geometry of two frames differs: sample count, channel count or
\* plane size.
Incompatible(x, y) ==
    \/ x.nb_samples # y.nb_samples
    \/ x.channels # y.channels
    \/ x.linesize0 # y.linesize0

\* C4: clone_from between frames of incompatible geometry fails with an
\* error and leaves the destination, metadata and plane bytes, as it was.
C4_CloneFromFailsWhole ==
    (ret.op = "clone_from" /\ Incompatible(ret.pre.frame, frames[ret.source])) =>
        /\ ret.outcome = "error"
        /\ frames[ret.frame] = ret.pre.frame
        /\ PlaneBytes(frames[ret.frame], heap) = ret.pre.bytes

\* C5 as stated: a typed plane access with an element type that does not
\* match the format fails with the unsupported-type error, whatever the index
\* and whether or not the frame is allocated.
C5_MismatchAlwaysUnsupportedType ==
    (TypedAccess /\ Mismatched) => ret.result = Panic("unsupported type")

\* C5 as amended: a typed plane access with a mismatched element type never
\* returns a view; it fails with the unsupported-type error when the index is
\* below planes() and with the out-of-bounds error otherwise.
C5_MismatchFails ==
    (TypedAccess /\ Mismatched) =>
        ret.result = IF ret.index < planes(Subject)
                     THEN Panic("unsupported type")
                     ELSE Panic("out of bounds")

C5_Witness ==
    /\ ret.op = "plane_mut"
    /\ Mismatched
    /\ format(Subject) = [family |-> "F32", packing |-> "Planar"]
    /\ ret.T = "I32"
    /\ ret.index = 1
    /\ ret.index < planes(Subject)
    /\ ret.result = Panic("unsupported type")

\* C6: a typed plane access with index >= planes() fails with the
\* out-of-bounds error in every state, on an empty frame for every index.
C6_OutOfBoundsFails ==
    /\ (TypedAccess /\ ret.index >= planes(Subject)) =>
           ret.result = Panic("out of bounds")
    /\ (TypedAccess /\ Subject = EmptyFrame) => ret.result = Panic("out of bounds")

C6_Witness ==
    /\ ret.op = "plane"
    /\ Allocated(Subject)
    /\ planes(Subject) = 1
    /\ ret.index = 1
    /\ ~Mismatched
    /\ ret.result = Panic("out of bounds")

\* The plane count read off the native fields.
ExpectedPlanes(fr) ==
    IF fr.linesize0 = 0 THEN 0
    ELSE IF fr.format \in 5 .. 9 THEN fr.channels
    ELSE 1

\* C7: planes() is 0 when the first line size is 0 (so on an empty frame),
\* else 1 for a packed format, else channels(); after a successful new a
\* packed format has 1 plane and a planar one as many as the layout has
\* channels; data() returns that many views.
C7_PlanesValue ==
    /\ \A f \in FrameIds :
           /\ planes(frames[f]) = ExpectedPlanes(frames[f])
           /\ frames[f] = EmptyFrame => planes(frames[f]) = 0
    /\ (ret.op = "new" /\ ret.av_rc = OK) =>
           planes(Subject) = IF ret.format.packing = "Planar"
                             THEN NbChannels(ret.layout) ELSE 1
    /\ (ret.op \in {"data", "data_mut"} /\ ret.result.kind = "views") =>
           Len(ret.result.views) = ExpectedPlanes(Subject)

C7_Witness ==
    /\ ret.op = "new"
    /\ ret.av_rc = OK
    /\ ret.format = [family |-> "I16", packing |-> "Planar"]
    /\ ret.layout = STEREO
    /\ planes(Subject) = 2

\* C8: the frame new(F, N, L) returns for a supported format F, a count
\* N > 0 and a layout L reads back samples() = N, format() = F and
\* channel_layout() = L.
C8_NewKeepsArguments ==
    (ret.op = "new" /\ ret.av_rc = OK) =>
        /\ samples(Subject) = ret.samples
        /\ format(Subject) = ret.format
        /\ channel_layout(Subject) = ret.layout

\* C9: on a frame allocated by new and not modified since, a typed plane
\* view spans size_of::<T>() * samples() bytes and stays inside the buffer
\* of its plane.
C9_ViewInsideAllocation ==
    (TypedAccess /\ ret.result.kind = "view" /\ nsets = 0) =>
        /\ ret.result.ptr # NULL
        /\ ret.result.size * ret.result.len = SizeOf(ret.T) * samples(Subject)
        /\ ret.result.size * ret.result.len <= Len(heap[ret.result.ptr])

\* C10: whatever setters were called, every index below planes() is one of
\* the native plane slots and has a buffer, so that no view is built over a
\* plane that does not exist.
C10_PlanesBacked ==
    (ret.op \in AccessOps) =>
        /\ \A i \in 0 .. (planes(Subject) - 1) :
               i \in Slots /\ Subject.data[i] # NULL
        /\ ret.result # Panic("index out of bounds of data")
        /\ ret.result.kind = "view" => ret.result.ptr # NULL
        /\ ret.result.kind = "views" =>
               \A k \in DOMAIN ret.result.views : ret.result.views[k].ptr # NULL

====
